---- MODULE Spec2Model ----
(***************************************************************************)
(* Model of rag-knowledge-base/main.py: class RAGSystem (Spec), and of     *)
(* quotation-service/main.py: the POST /quote handler (SpecQuote).         *)
(*                                                                         *)
(* One RAGSystem object in one single-threaded process.  ingest_documents  *)
(* and query are modelled step by step (one action per statement that      *)
(* calls an external collaborator: loader, splitter, FAISS, Ollama).       *)
(* External collaborators are nondeterministic: a loader or a FAISS or an  *)
(* Ollama call either returns or raises; the text Ollama returns is any    *)
(* text over a small alphabet of code points.                              *)
(***************************************************************************)
EXTENDS Integers, Sequences, FiniteSets, TLC

\* ------------------------------------------------------------------ bounds
MaxLen == 2      \* longest text the generation capability returns
MaxFiles == 3    \* longest directory listing handed to ingest_documents
MaxK == 2        \* largest k given to query

\* ------------------------------------------------------- program constants
\* The three characters of the literal in _is_arabic: set('ء-ي').
Hamza == 1569    \* U+0621
Hyphen == 45     \* U+002D
Yeh == 1610      \* U+064A

\* ------------------------------------------------------------------- texts
\* A text is a sequence of code points.  The alphabet holds one character
\* of each class the validator can tell apart or confuse: space, '-',
\* Latin 'a', Arabic beh (U+0628, inside U+0621..U+064A), Arabic yeh.
Alphabet == {32, Hyphen, 97, 1576, Yeh}

Texts == UNION {[1..n -> Alphabet] : n \in 0..MaxLen}

\* Python str.strip(): drop leading and trailing whitespace.
Whitespace == {9, 10, 11, 12, 13, 28, 29, 30, 31, 32}

RECURSIVE lstrip(_)
lstrip(s) == IF s # <<>> /\ Head(s) \in Whitespace THEN lstrip(Tail(s)) ELSE s

RECURSIVE rstrip(_)
rstrip(s) ==
    IF s # <<>> /\ s[Len(s)] \in Whitespace
    THEN rstrip(SubSeq(s, 1, Len(s) - 1))
    ELSE s

strip(s) == rstrip(lstrip(s))

\* arabic_chars = set('ء-ي'): the set of the three characters of the literal.
arabic_chars == {Hamza, Hyphen, Yeh}

\* RAGSystem._is_arabic: any(char in arabic_chars for char in text)
is_arabic(text) == \E i \in 1..Len(text) : text[i] \in arabic_chars

\* ------------------------------------------------------ files and documents
\* A directory entry: its name without the extension, and the extension.
\* filename.endswith('.pdf') is ext = "pdf".
FileNames ==
    { [stem |-> "a", ext |-> "pdf"],
      [stem |-> "b", ext |-> "txt"],
      [stem |-> "c", ext |-> "md"] }

\* os.listdir: distinct names, in arbitrary order.
Listings ==
    UNION { {l \in [1..n -> FileNames] : \A i, j \in 1..n : i # j => l[i] # l[j]}
            : n \in 0..MaxFiles }

\* A Document (and a chunk): its metadata.  The text is left out: no
\* operation of RAGSystem branches on it.
Doc(f, p) == [source |-> f, page |-> p]

\* What a loader that does not raise returns: PyPDFLoader one Document per
\* page (two pages here), TextLoader one Document.
LoaderDocs(f) ==
    IF f.ext = "pdf" THEN <<Doc(f, 0), Doc(f, 1)>> ELSE <<Doc(f, 0)>>

\* RecursiveCharacterTextSplitter.split_documents for documents shorter than
\* chunk_size: one chunk per document, same metadata, same order.
split_documents(documents) == documents

\* ------------------------------------------------------------ vector stores
NoStore == [kind |-> "none", chunks |-> <<>>]
CorruptStore == [kind |-> "corrupt", chunks |-> <<>>]
Index(cs) == [kind |-> "index", chunks |-> cs]

\* ------------------------------------------------------------------- state
VARIABLES
    pc,            \* position of the process
    vector_store,  \* self.vector_store
    persisted,     \* what is at self.persist_directory
    files,         \* ingest: os.listdir(documents_path)
    idx,           \* ingest: position of the for loop in files
    documents,     \* ingest: documents
    chunks,        \* ingest: chunks
    ret,           \* ingest: returned chunk count (-1: none)
    raisedFiles,   \* history: files whose loader raised in this ingest
    visited,       \* history: files the loop body has run for
    prior_vs,      \* history: vector_store when the current call began
    prior_ps,      \* history: persisted when the current call began
    language,      \* query: language
    k,             \* query: k
    docs,          \* query: docs
    searches,      \* history: similarity_search calls of this query
    gen_log,       \* history: llm.invoke calls of this query, in order
    answer,        \* query: answer (NoAnswer before it is bound)
    result,        \* query: the returned dict
    err,           \* the exception that left the call, "" if none
    qpc,              \* quotation service: position of the /quote handler
    request,          \* quotation service: the request body
    calculated_items, \* create_quotation: calculated_items
    subtotal,         \* create_quotation: subtotal, in cents
    item_idx,         \* create_quotation: position of the for loop
    status_code,      \* HTTP status of the response (0: none yet)
    response          \* the QuoteResponse returned

quoteVars == <<qpc, request, calculated_items, subtotal, item_idx,
               status_code, response>>

vars == <<pc, vector_store, persisted, files, idx, documents, chunks, ret,
          raisedFiles, visited, prior_vs, prior_ps, language, k, docs,
          searches, gen_log, answer, result, err, quoteVars>>

ragVars == <<pc, vector_store, persisted, files, idx, documents, chunks, ret,
             raisedFiles, visited, prior_vs, prior_ps, language, k, docs,
             searches, gen_log, answer, result, err>>

storeVars == <<vector_store, persisted>>
ingestVars == <<files, idx, documents, chunks, ret, raisedFiles, visited>>
queryVars == <<language, k, docs, searches, gen_log, answer, result>>

NoResult == [none |-> TRUE]
NoAnswer == <<-1>>
NoRequest == [none |-> TRUE]
NoResponse == [none |-> TRUE]

\* RAGSystem.__init__ in a process that finds no persisted index; the
\* quotation service after module load, no request in hand.
Init ==
    /\ pc = "idle"
    /\ vector_store = NoStore
    /\ persisted = NoStore
    /\ files = <<>>
    /\ idx = 0
    /\ documents = <<>>
    /\ chunks = <<>>
    /\ ret = -1
    /\ raisedFiles = {}
    /\ visited = <<>>
    /\ prior_vs = NoStore
    /\ prior_ps = NoStore
    /\ language = ""
    /\ k = 0
    /\ docs = <<>>
    /\ searches = 0
    /\ gen_log = <<>>
    /\ answer = NoAnswer
    /\ result = NoResult
    /\ err = ""
    /\ qpc = "idle"
    /\ request = NoRequest
    /\ calculated_items = <<>>
    /\ subtotal = 0
    /\ item_idx = 0
    /\ status_code = 0
    /\ response = NoResponse

\* ------------------------------------------------------------------ ingest
\* ingest_documents, lines 34-36: documents = [], the listing is read.
ingest_begin ==
    /\ pc = "idle"
    /\ \E l \in Listings : files' = l
    /\ idx' = 1
    /\ documents' = <<>>
    /\ chunks' = <<>>
    /\ ret' = -1
    /\ raisedFiles' = {}
    /\ visited' = <<>>
    /\ prior_vs' = vector_store
    /\ prior_ps' = persisted
    /\ pc' = "loading"
    /\ err' = ""
    /\ UNCHANGED <<storeVars, queryVars>>
    /\ UNCHANGED quoteVars

\* One iteration of the for loop, lines 36-49, for a file whose loader
\* raises: the except clause prints and the loop goes on.
\* Variant without the try/except: the loader's exception leaves the call.
ingest_file_raises_mutant_abort(f) ==
    /\ f.ext \in {"pdf", "txt"}
    /\ raisedFiles' = raisedFiles \cup {f}
    /\ visited' = Append(visited, f)
    /\ pc' = "raised"
    /\ err' = "load"
    /\ UNCHANGED <<idx, documents>>

ingest_file_raises(f) ==
    /\ f.ext \in {"pdf", "txt"}
    /\ raisedFiles' = raisedFiles \cup {f}
    /\ visited' = Append(visited, f)
    /\ idx' = idx + 1
    /\ UNCHANGED <<documents, pc, err>>

\* One iteration of the for loop for a file whose loader returns, or whose
\* extension matches neither branch.
ingest_file_loads(f) ==
    /\ documents' =
          IF f.ext = "pdf" THEN documents \o LoaderDocs(f)
          ELSE IF f.ext = "txt" THEN documents \o LoaderDocs(f)
          ELSE documents
    /\ visited' = Append(visited, f)
    /\ idx' = idx + 1
    /\ UNCHANGED <<raisedFiles, pc, err>>

ingest_file ==
    /\ pc = "loading"
    /\ idx <= Len(files)
    /\ \/ ingest_file_raises(files[idx])
       \/ ingest_file_loads(files[idx])
    /\ UNCHANGED <<storeVars, queryVars, files, chunks, ret, prior_vs, prior_ps>>
    /\ UNCHANGED quoteVars

\* Lines 51-58: the loop is over, the documents are split.
ingest_split ==
    /\ pc = "loading"
    /\ idx > Len(files)
    /\ chunks' = split_documents(documents)
    /\ pc' = "building"
    /\ UNCHANGED <<storeVars, queryVars, files, idx, documents, ret,
                   raisedFiles, visited, prior_vs, prior_ps, err>>
    /\ UNCHANGED quoteVars

\* Line 60: self.vector_store = FAISS.from_documents(chunks, self.embeddings).
\* The call embeds every chunk and builds the index; if it raises, the
\* assignment does not happen.  FAISS takes the dimension of the index from
\* the first embedding, so with no chunks the call can only raise.
\* Variant that drops the old index before the new one is built.
ingest_build_mutant_clear ==
    /\ pc = "building"
    /\ \/ /\ chunks # <<>>
          /\ vector_store' = Index(chunks)
          /\ pc' = "saving"
          /\ err' = err
       \/ /\ vector_store' = NoStore
          /\ pc' = "raised"
          /\ err' = "build"
    /\ UNCHANGED <<persisted, queryVars, ingestVars, prior_vs, prior_ps>>
    /\ UNCHANGED quoteVars

ingest_build ==
    /\ pc = "building"
    /\ \/ /\ chunks # <<>>
          /\ vector_store' = Index(chunks)
          /\ pc' = "saving"
          /\ err' = err
       \/ /\ vector_store' = vector_store
          /\ pc' = "raised"
          /\ err' = "build"
    /\ UNCHANGED <<persisted, queryVars, ingestVars, prior_vs, prior_ps>>
    /\ UNCHANGED quoteVars

\* Lines 61-63: save_local, then return len(chunks).  A save that raises
\* leaves the directory as it was or half written.
ingest_save ==
    /\ pc = "saving"
    /\ \/ /\ persisted' = vector_store
          /\ ret' = Len(chunks)
          /\ pc' = "ingested"
          /\ err' = err
       \/ /\ persisted' \in {persisted, CorruptStore}
          /\ ret' = ret
          /\ pc' = "raised"
          /\ err' = "save"
    /\ UNCHANGED <<vector_store, queryVars, files, idx, documents, chunks,
                   raisedFiles, visited, prior_vs, prior_ps>>
    /\ UNCHANGED quoteVars

\* ------------------------------------------------------------------- query
Languages == {"en", "ar"}

NotInitialized == "Vector store not initialized. Please run --ingest first."

\* similarity_search(question, k): the min(k, n) nearest of the n chunks of
\* the index, nearest first.  Which chunks are nearest depends on the
\* embedding: any choice of distinct chunks, in any order.
Rankings(cs, kk) ==
    LET m == IF kk < Len(cs) THEN kk ELSE Len(cs)
    IN  { [i \in 1..m |-> cs[r[i]]] :
          r \in {q \in [1..m -> 1..Len(cs)] :
                   \A i, j \in 1..m : i # j => q[i] # q[j]} }

\* One llm.invoke call as the history records it.
Returned(t) == [raised |-> FALSE, text |-> t]
Raised == [raised |-> TRUE, text |-> <<>>]

Calls == Len(gen_log)

\* query, lines 77-81: the arguments are bound; with no index in memory,
\* load_vector_store (lines 65-73) is tried; with none on disk either the
\* error dict is returned.
\* Variant without the early return: similarity_search is called on None.
query_begin_mutant_fallthrough ==
    /\ pc = "idle"
    /\ \E l \in Languages : language' = l
    /\ \E kk \in 1..MaxK : k' = kk
    /\ prior_vs' = vector_store
    /\ prior_ps' = persisted
    /\ docs' = <<>>
    /\ searches' = 0
    /\ gen_log' = <<>>
    /\ answer' = NoAnswer
    /\ \/ /\ vector_store.kind = "index"
          /\ UNCHANGED <<vector_store, result, err>>
          /\ pc' = "searching"
       \/ /\ vector_store.kind = "none"
          /\ persisted.kind = "index"
          /\ vector_store' = persisted
          /\ UNCHANGED <<result, err>>
          /\ pc' = "searching"
       \/ /\ vector_store.kind = "none"
          /\ persisted.kind = "corrupt"
          /\ UNCHANGED <<vector_store, result>>
          /\ err' = "load_local"
          /\ pc' = "raised"
       \/ /\ vector_store.kind = "none"
          /\ persisted.kind = "none"
          /\ UNCHANGED <<vector_store, result>>
          /\ err' = "AttributeError"
          /\ pc' = "raised"
    /\ UNCHANGED <<persisted, ingestVars>>
    /\ UNCHANGED quoteVars

query_begin ==
    /\ pc = "idle"
    /\ \E l \in Languages : language' = l
    /\ \E kk \in 1..MaxK : k' = kk
    /\ prior_vs' = vector_store
    /\ prior_ps' = persisted
    /\ docs' = <<>>
    /\ searches' = 0
    /\ gen_log' = <<>>
    /\ answer' = NoAnswer
    /\ \/ /\ vector_store.kind = "index"
          /\ UNCHANGED <<vector_store, result, err>>
          /\ pc' = "searching"
       \/ /\ vector_store.kind = "none"
          /\ persisted.kind = "index"
          /\ vector_store' = persisted
          /\ UNCHANGED <<result, err>>
          /\ pc' = "searching"
       \/ /\ vector_store.kind = "none"
          /\ persisted.kind = "corrupt"
          /\ UNCHANGED <<vector_store, result>>
          /\ err' = "load_local"
          /\ pc' = "raised"
       \/ /\ vector_store.kind = "none"
          /\ persisted.kind = "none"
          /\ UNCHANGED <<vector_store, err>>
          /\ result' = [error |-> NotInitialized]
          /\ pc' = "returned"
    /\ UNCHANGED <<persisted, ingestVars>>
    /\ UNCHANGED quoteVars

\* Lines 84-87: docs = self.vector_store.similarity_search(question, k=k).
\* The call embeds the question, which can raise.
query_search ==
    /\ pc = "searching"
    /\ searches' = searches + 1
    /\ \/ /\ \E r \in Rankings(vector_store.chunks, k) : docs' = r
          /\ pc' = "generating"
          /\ err' = err
       \/ /\ docs' = docs
          /\ pc' = "raised"
          /\ err' = "search"
    /\ UNCHANGED <<storeVars, ingestVars, prior_vs, prior_ps, language, k,
                   gen_log, answer, result>>
    /\ UNCHANGED quoteVars

\* _generate_english_answer, lines 112-127: one llm.invoke; the stripped
\* text is returned, an exception is wrapped and raised.
generate_english ==
    /\ pc = "generating"
    /\ language # "ar"
    /\ \/ \E t \in Texts :
             /\ gen_log' = Append(gen_log, Returned(t))
             /\ answer' = strip(t)
             /\ pc' = "respond"
             /\ err' = err
       \/ /\ gen_log' = Append(gen_log, Raised)
          /\ answer' = answer
          /\ pc' = "raised"
          /\ err' = "Ollama generation failed"
    /\ UNCHANGED <<storeVars, ingestVars, prior_vs, prior_ps, language, k,
                   docs, searches, result>>
    /\ UNCHANGED quoteVars

\* _generate_arabic_answer, lines 129-145 and 156-157: the first llm.invoke
\* and the test of its text.
\* Variant whose except clause falls back to the stronger prompt.
generate_arabic_first_mutant_retry_on_raise ==
    /\ pc = "generating"
    /\ language = "ar"
    /\ \/ \E t \in Texts :
             /\ gen_log' = Append(gen_log, Returned(t))
             /\ answer' = IF is_arabic(t) THEN strip(t) ELSE answer
             /\ pc' = IF is_arabic(t) THEN "respond" ELSE "retrying"
             /\ err' = err
       \/ /\ gen_log' = Append(gen_log, Raised)
          /\ answer' = answer
          /\ pc' = "retrying"
          /\ err' = err
    /\ UNCHANGED <<storeVars, ingestVars, prior_vs, prior_ps, language, k,
                   docs, searches, result>>
    /\ UNCHANGED quoteVars

generate_arabic_first ==
    /\ pc = "generating"
    /\ language = "ar"
    /\ \/ \E t \in Texts :
             /\ gen_log' = Append(gen_log, Returned(t))
             /\ answer' = IF is_arabic(t) THEN strip(t) ELSE answer
             /\ pc' = IF is_arabic(t) THEN "respond" ELSE "retrying"
             /\ err' = err
       \/ /\ gen_log' = Append(gen_log, Raised)
          /\ answer' = answer
          /\ pc' = "raised"
          /\ err' = "Ollama Arabic generation failed"
    /\ UNCHANGED <<storeVars, ingestVars, prior_vs, prior_ps, language, k,
                   docs, searches, result>>
    /\ UNCHANGED quoteVars

\* _generate_arabic_answer, lines 146-157: the second llm.invoke, with
\* stronger_prompt; its stripped text is returned without a test.
\* Variant that tests the second text too and retries until it passes.
generate_arabic_retry_mutant_loop ==
    /\ pc = "retrying"
    /\ \/ \E t \in Texts :
             /\ gen_log' = Append(gen_log, Returned(t))
             /\ answer' = IF is_arabic(t) THEN strip(t) ELSE answer
             /\ pc' = IF is_arabic(t) THEN "respond" ELSE "retrying"
             /\ err' = err
       \/ /\ gen_log' = Append(gen_log, Raised)
          /\ answer' = answer
          /\ pc' = "raised"
          /\ err' = "Ollama Arabic generation failed"
    /\ UNCHANGED <<storeVars, ingestVars, prior_vs, prior_ps, language, k,
                   docs, searches, result>>
    /\ UNCHANGED quoteVars

\* Variant that raises when the second text fails the test as well.
generate_arabic_retry_mutant_raise_on_mismatch ==
    /\ pc = "retrying"
    /\ \/ \E t \in Texts :
             /\ gen_log' = Append(gen_log, Returned(t))
             /\ answer' = IF is_arabic(t) THEN strip(t) ELSE answer
             /\ pc' = IF is_arabic(t) THEN "respond" ELSE "raised"
             /\ err' = IF is_arabic(t) THEN err ELSE "Ollama Arabic generation failed"
       \/ /\ gen_log' = Append(gen_log, Raised)
          /\ answer' = answer
          /\ pc' = "raised"
          /\ err' = "Ollama Arabic generation failed"
    /\ UNCHANGED <<storeVars, ingestVars, prior_vs, prior_ps, language, k,
                   docs, searches, result>>
    /\ UNCHANGED quoteVars

generate_arabic_retry ==
    /\ pc = "retrying"
    /\ \/ \E t \in Texts :
             /\ gen_log' = Append(gen_log, Returned(t))
             /\ answer' = strip(t)
             /\ pc' = "respond"
             /\ err' = err
       \/ /\ gen_log' = Append(gen_log, Raised)
          /\ answer' = answer
          /\ pc' = "raised"
          /\ err' = "Ollama Arabic generation failed"
    /\ UNCHANGED <<storeVars, ingestVars, prior_vs, prior_ps, language, k,
                   docs, searches, result>>
    /\ UNCHANGED quoteVars

\* One entry of "sources", lines 100-104 (the excerpt of the text left out).
SourceEntry(doc) == [metadata |-> doc, source |-> doc.source]

\* set(...) of main, lines 194 and 229, as a duplicate-free list: the first
\* entry of each source.
RECURSIVE DedupBySource(_)
DedupBySource(s) ==
    IF s = <<>> THEN <<>>
    ELSE LET init == DedupBySource(SubSeq(s, 1, Len(s) - 1))
             last == s[Len(s)]
         IN  IF \E i \in 1..Len(init) : init[i].source = last.source
             THEN init
             ELSE Append(init, last)

\* query, lines 94-110: the dict that is returned.
ResultRecord(srcs) ==
    [question |-> "question",
     answer |-> answer,
     sources |-> srcs,
     processing_time |-> "elapsed",
     embeddings_model |-> "huggingface",
     generation_model |-> "llama3:latest"]

\* Variant that deduplicates sources by source identifier.
query_return_mutant_dedup ==
    /\ pc = "respond"
    /\ result' = ResultRecord(DedupBySource([i \in 1..Len(docs) |-> SourceEntry(docs[i])]))
    /\ pc' = "returned"
    /\ UNCHANGED <<storeVars, ingestVars, prior_vs, prior_ps, language, k,
                   docs, searches, gen_log, answer, err>>
    /\ UNCHANGED quoteVars

\* Variant that adds the number of generation calls to the dict.
query_return_mutant_attempts ==
    /\ pc = "respond"
    /\ result' = [attempts |-> Calls] @@
                 ResultRecord([i \in 1..Len(docs) |-> SourceEntry(docs[i])])
    /\ pc' = "returned"
    /\ UNCHANGED <<storeVars, ingestVars, prior_vs, prior_ps, language, k,
                   docs, searches, gen_log, answer, err>>
    /\ UNCHANGED quoteVars

query_return ==
    /\ pc = "respond"
    /\ result' = ResultRecord([i \in 1..Len(docs) |-> SourceEntry(docs[i])])
    /\ pc' = "returned"
    /\ UNCHANGED <<storeVars, ingestVars, prior_vs, prior_ps, language, k,
                   docs, searches, gen_log, answer, err>>
    /\ UNCHANGED quoteVars

\* ------------------------------------------------------- between the calls
\* The caller has the outcome of the call (a value or an exception) and the
\* object is ready for the next call: the locals of the call are gone.
finish ==
    /\ pc \in {"ingested", "returned", "raised"}
    /\ pc' = "idle"
    /\ files' = <<>>
    /\ idx' = 0
    /\ documents' = <<>>
    /\ chunks' = <<>>
    /\ ret' = -1
    /\ raisedFiles' = {}
    /\ visited' = <<>>
    /\ prior_vs' = NoStore
    /\ prior_ps' = NoStore
    /\ language' = ""
    /\ k' = 0
    /\ docs' = <<>>
    /\ searches' = 0
    /\ gen_log' = <<>>
    /\ answer' = NoAnswer
    /\ result' = NoResult
    /\ err' = ""
    /\ UNCHANGED storeVars
    /\ UNCHANGED quoteVars

\* A new process constructs a new RAGSystem: __init__, line 17, sets
\* self.vector_store = None; the persist directory is what it was.
restart ==
    /\ pc = "idle"
    /\ vector_store # NoStore
    /\ vector_store' = NoStore
    /\ UNCHANGED <<pc, persisted, ingestVars, queryVars, prior_vs, prior_ps, err>>
    /\ UNCHANGED quoteVars

Next ==
    \/ ingest_begin
    \/ ingest_file
    \/ ingest_split
    \/ ingest_build
    \/ ingest_save
    \/ query_begin
    \/ query_search
    \/ generate_english
    \/ generate_arabic_first
    \/ generate_arabic_retry
    \/ query_return
    \/ finish
    \/ restart

Spec == Init /\ [][Next]_vars

\* ======================================================= quotation service
\* quotation-service/main.py.  Money is counted in cents; a product that is
\* not yet rounded is counted in hundredths of a cent.
MaxItems == 2    \* longest items list of a request

\* QuotationEngine.tax_rate = 0.15, in percent.
TaxRatePct == 15

\* The values of enum Language.
AR == "ar"
EN == "en"

\* QuoteItem values a request can carry; qty 0 is what Field(gt=0) rejects.
\* Unit costs are multiples of 20 cents, so no product lies halfway between
\* two cents, where the float arithmetic of the code would decide.
ItemValues ==
    [sku : {"ALR-SL-90W"}, qty : {0, 1, 2}, unit_cost : {10000, 24000},
     margin_pct : {0, 22}]

ItemLists == UNION {[1..n -> ItemValues] : n \in 0..MaxItems}

\* notes: Optional[str]; <<>> is None, <<"">> the empty string.
NotesValues == {<<>>, <<"">>, <<"Client asked for spec compliance.">>}

\* Request bodies; lang "fr" is what the Language enum rejects.
Requests ==
    [client : [name : {"Gulf Eng."}, contact : {"omar@client.com"},
               lang : {EN, AR, "fr"}],
     currency : {"SAR"},
     items : ItemLists,
     delivery_terms : {"DAP Dammam, 4 weeks"},
     notes : NotesValues]

\* The pydantic models, lines 8-33: what FastAPI accepts as a QuoteRequest.
ValidRequest(req) ==
    /\ req.client.lang \in {AR, EN}
    /\ \A i \in 1..Len(req.items) :
          /\ req.items[i].qty > 0
          /\ req.items[i].unit_cost > 0
          /\ req.items[i].margin_pct >= 0
          /\ req.items[i].margin_pct <= 100

\* round(x, 2) of an amount given in hundredths of a cent: the nearest
\* cent, the even one when halfway.
round2(x) ==
    LET q == x \div 100
        r == x % 100
    IN  IF r < 50 THEN q
        ELSE IF r > 50 THEN q + 1
        ELSE IF q % 2 = 0 THEN q ELSE q + 1

\* QuotationEngine.calculate_line_total, lines 57-67.
calculate_line_total(item) ==
    LET unit_price == item.unit_cost * (100 + item.margin_pct)
        line_total == unit_price * item.qty
    IN  [sku |-> item.sku,
         quantity |-> item.qty,
         unit_cost |-> round2(item.unit_cost * 100),
         margin_pct |-> item.margin_pct,
         unit_price |-> round2(unit_price),
         line_total |-> round2(line_total)]

\* quote_data.get('notes') is truthy: neither None nor the empty string.
NotesGiven(quote_data) == quote_data.notes # <<>> /\ quote_data.notes[1] # ""

\* QuotationEngine._generate_english_email, lines 75-98.  An email text is
\* the record of the literal parts and the interpolated values of its
\* template, in place of the string they are joined to.
generate_english_email(quote_data) ==
    [salutation |-> "Dear",
     client_name |-> quote_data.client_name,
     opening |-> "Thank you for your inquiry. Please find our quotation below:",
     items_text |->
        [i \in 1..Len(quote_data.items) |->
            [sku |-> quote_data.items[i].sku,
             quantity |-> quote_data.items[i].quantity,
             unit |-> "pcs",
             unit_price |-> quote_data.items[i].unit_price,
             line_total |-> quote_data.items[i].line_total,
             currency |-> quote_data.currency,
             currency_before_amount |-> TRUE]],
     subtotal |-> quote_data.subtotal,
     vat_label |-> "VAT (15%)",
     total_tax |-> quote_data.total_tax,
     grand_total |-> quote_data.grand_total,
     currency |-> quote_data.currency,
     delivery_terms |-> quote_data.delivery_terms,
     notes |-> IF NotesGiven(quote_data) THEN quote_data.notes[1]
               ELSE "Please feel free to contact us for any clarifications.",
     signature |-> "Alrouf Sales Team"]

\* QuotationEngine._generate_arabic_email, lines 100-123.  The Arabic
\* literals are written by their transliteration.
generate_arabic_email(quote_data) ==
    [salutation |-> "as-sayyid/as-sayyida",
     client_name |-> quote_data.client_name,
     opening |-> "shukran li-istifsarikum",
     items_text |->
        [i \in 1..Len(quote_data.items) |->
            [sku |-> quote_data.items[i].sku,
             quantity |-> quote_data.items[i].quantity,
             unit |-> "qit'a",
             unit_price |-> quote_data.items[i].unit_price,
             line_total |-> quote_data.items[i].line_total,
             currency |-> quote_data.currency,
             currency_before_amount |-> FALSE]],
     subtotal |-> quote_data.subtotal,
     vat_label |-> "daribat al-qima al-mudafa (15%)",
     total_tax |-> quote_data.total_tax,
     grand_total |-> quote_data.grand_total,
     currency |-> quote_data.currency,
     delivery_terms |-> quote_data.delivery_terms,
     notes |-> IF NotesGiven(quote_data) THEN quote_data.notes[1]
               ELSE "yurja adam at-taraddud fi al-ittisal bina",
     signature |-> "fariq al-mabi'at - ar-ra'uf"]

\* QuotationEngine.generate_email_draft, lines 69-73.
generate_email_draft(quote_data, lang) ==
    IF lang = EN
    THEN generate_english_email(quote_data)
    ELSE generate_arabic_email(quote_data)

\* create_quotation, line 157.
\* Variant that takes the primary language again.
alternate_language_mutant_same(primary_language) == primary_language

alternate_language(primary_language) ==
    IF primary_language = EN THEN AR ELSE EN

\* POST /quote arrives: FastAPI validates the body (422 when it is not a
\* QuoteRequest); create_quotation, lines 131-132, starts the loop.
quote_receive ==
    /\ qpc = "idle"
    /\ \E req \in Requests :
          /\ request' = req
          /\ \/ /\ ValidRequest(req)
                /\ qpc' = "items"
                /\ item_idx' = 1
                /\ status_code' = 0
             \/ /\ ~ValidRequest(req)
                /\ qpc' = "responded"
                /\ item_idx' = 0
                /\ status_code' = 422
    /\ calculated_items' = <<>>
    /\ subtotal' = 0
    /\ response' = NoResponse
    /\ UNCHANGED ragVars

\* create_quotation, lines 134-137: one iteration of the for loop.
quote_line ==
    /\ qpc = "items"
    /\ item_idx <= Len(request.items)
    /\ LET line_data == calculate_line_total(request.items[item_idx])
       IN  /\ calculated_items' = Append(calculated_items, line_data)
           /\ subtotal' = subtotal + line_data.line_total
    /\ item_idx' = item_idx + 1
    /\ UNCHANGED <<qpc, request, status_code, response, ragVars>>

\* create_quotation, lines 139-179: totals, quote_data, the two drafts and
\* the response.  uuid4 gives the quote id.
quote_respond ==
    /\ qpc = "items"
    /\ item_idx > Len(request.items)
    /\ LET total_tax == subtotal * TaxRatePct
           grand_total == subtotal * 100 + total_tax
           quote_data ==
              [client_name |-> request.client.name,
               currency |-> request.currency,
               items |-> calculated_items,
               subtotal |-> round2(subtotal * 100),
               total_tax |-> round2(total_tax),
               grand_total |-> round2(grand_total),
               delivery_terms |-> request.delivery_terms,
               notes |-> request.notes]
           primary_language == request.client.lang
           email_draft ==
              [primary |-> generate_email_draft(quote_data, primary_language),
               alternate |-> generate_email_draft(quote_data,
                                 alternate_language(primary_language)),
               requested_language |-> primary_language]
       IN  response' =
              [quote_id |-> "QR-uuid4",
               client |-> request.client,
               currency |-> request.currency,
               items |-> calculated_items,
               subtotal |-> quote_data.subtotal,
               total_tax |-> quote_data.total_tax,
               grand_total |-> quote_data.grand_total,
               delivery_terms |-> request.delivery_terms,
               email_draft |-> email_draft,
               notes |-> request.notes]
    /\ status_code' = 200
    /\ qpc' = "responded"
    /\ UNCHANGED <<request, calculated_items, subtotal, item_idx, ragVars>>

\* The response is sent; the service waits for the next request.
quote_done ==
    /\ qpc = "responded"
    /\ qpc' = "idle"
    /\ request' = NoRequest
    /\ calculated_items' = <<>>
    /\ subtotal' = 0
    /\ item_idx' = 0
    /\ status_code' = 0
    /\ response' = NoResponse
    /\ UNCHANGED ragVars

NextQuote ==
    \/ quote_receive
    \/ quote_line
    \/ quote_respond
    \/ quote_done

SpecQuote == Init /\ [][NextQuote]_vars

\* ================================================================== claims
\* The Arabic letter range U+0621..U+064A the claims speak of.
HasArabicLetter(text) == \E i \in 1..Len(text) : Hamza <= text[i] /\ text[i] <= Yeh

GenerationErrors == {"Ollama generation failed", "Ollama Arabic generation failed"}

\* A query call is under way or over (ingest leaves language unbound).
InQuery == language # ""
\* An ingest call is under way or over.
InIngest == idx > 0
\* The query returned its record (not the error dict).
QueryOK == pc = "returned" /\ "answer" \in DOMAIN result

\* C1 (as stated): for language 'ar', the query that returns has made a
\* second generation call if and only if the first generated text holds no
\* Arabic letter.
C1_RetryIffFirstNotArabic ==
    (QueryOK /\ language = "ar") =>
        ((Calls = 2) <=> ~HasArabicLetter(gen_log[1].text))

\* C2 (as stated): _is_arabic(text) is true exactly when the text holds a
\* character in U+0621..U+064A; checked on the text _is_arabic is applied to.
C2_ValidatorIsRangeTest ==
    (language = "ar" /\ Calls >= 1 /\ ~gen_log[1].raised) =>
        (is_arabic(gen_log[1].text) <=> HasArabicLetter(gen_log[1].text))

\* C3: a query makes at most 2 generation calls, exactly 1 once an English
\* request has generated, 1 or 2 once an Arabic request has generated, and
\* the retry is entered after exactly one call (no way back into it).
C3_BoundedGenerationCalls ==
    /\ Calls <= 2
    /\ (pc = "retrying") => (language = "ar" /\ Calls = 1)
    /\ (pc = "respond" \/ QueryOK \/ (InQuery /\ err \in GenerationErrors)) =>
          /\ (language = "en") => (Calls = 1)
          /\ (language = "ar") => (Calls \in {1, 2})

C3_Witness ==
    /\ QueryOK
    /\ language = "ar"
    /\ Calls = 2
    /\ ~is_arabic(gen_log[2].text)

\* C4: a generation call that raises is the last generation call of its
\* query, and the query ends with the generation exception and no result.
C4_GenerationFailureIsFatal ==
    \A i \in 1..Len(gen_log) :
        gen_log[i].raised =>
            /\ i = Len(gen_log)
            /\ pc = "raised"
            /\ err \in GenerationErrors
            /\ result = NoResult
            /\ answer = NoAnswer

C4_Witness ==
    /\ pc = "raised"
    /\ language = "ar"
    /\ Calls = 1
    /\ gen_log[1].raised

\* The query began with no index in memory and none at the persist location.
NotReadyCase == InQuery /\ prior_vs.kind = "none" /\ prior_ps.kind = "none"

\* C5 (as stated): a query with no index in memory and none persisted
\* raises NotReady, and neither searches nor generates.
C5_NotReadyIsRaised ==
    NotReadyCase =>
        /\ pc = "raised"
        /\ err = "NotReady"
        /\ searches = 0
        /\ Calls = 0

\* C5 (amended): such a query returns the error dict as a normal value,
\* raises nothing, and neither searches nor generates nor loads an index.
C5_NotReadyIsReturnedErrorDict ==
    NotReadyCase =>
        /\ pc = "returned"
        /\ result = [error |-> NotInitialized]
        /\ err = ""
        /\ searches = 0
        /\ Calls = 0
        /\ vector_store = NoStore

C5_Witness == NotReadyCase /\ pc = "returned" /\ "error" \in DOMAIN result

\* C6: an Arabic request whose two generation calls both returned (so the
\* first text failed validation) ends with the stripped second text as its
\* answer whatever that text is, and a query ends with a generation error
\* only when a generation call raised.
C6_SecondTextReturnedWhateverItsLanguage ==
    /\ (language = "ar" /\ Calls = 2 /\ ~gen_log[1].raised /\ ~gen_log[2].raised) =>
          /\ ~is_arabic(gen_log[1].text)
          /\ pc \in {"respond", "returned"}
          /\ err = ""
          /\ answer = strip(gen_log[2].text)
          /\ (pc = "returned") =>
                ("error" \notin DOMAIN result /\ result.answer = strip(gen_log[2].text))
    /\ (InQuery /\ pc = "raised" /\ err \in GenerationErrors) =>
          (Calls >= 1 /\ gen_log[Calls].raised)

C6_Witness ==
    /\ QueryOK
    /\ language = "ar"
    /\ Calls = 2
    /\ ~is_arabic(gen_log[1].text) /\ ~HasArabicLetter(gen_log[1].text)
    /\ ~is_arabic(gen_log[2].text) /\ ~HasArabicLetter(gen_log[2].text)
    /\ result.answer # <<>>

\* C7 (as stated): the returned record carries the number of generation
\* calls of the query.
C7_RecordCarriesAttemptCount ==
    QueryOK => ("attempts" \in DOMAIN result /\ result.attempts = Calls)

\* C7 (amended): the returned record has the six fields question, answer,
\* sources, processing_time, embeddings_model, generation_model and no
\* attempt count; its answer is the stripped text of the last of the 1 or 2
\* generation calls, the second one whenever _is_arabic rejected the first
\* text of an Arabic request.
C7_RecordHasNoAttemptCount ==
    QueryOK =>
        /\ DOMAIN result = {"question", "answer", "sources", "processing_time",
                            "embeddings_model", "generation_model"}
        /\ Calls \in {1, 2}
        /\ result.answer = strip(gen_log[Calls].text)
        /\ (language = "ar" /\ ~is_arabic(gen_log[1].text)) => (Calls = 2)

C7_Witness ==
    /\ QueryOK
    /\ language = "ar"
    /\ Calls = 2
    /\ gen_log[1].text = <<97>>
    /\ HasArabicLetter(gen_log[2].text)
    /\ result.answer = gen_log[2].text

\* C8: when FAISS.from_documents raises in ingest_documents, the in-memory
\* vector store and the persisted index are what they were when the call
\* began.
C8_BuildFailureLeavesIndex ==
    (InIngest /\ pc = "raised" /\ err = "build") =>
        (vector_store = prior_vs /\ persisted = prior_ps)

C8_Witness ==
    /\ InIngest /\ pc = "raised" /\ err = "build"
    /\ prior_vs.kind = "index"
    /\ prior_ps.kind = "index"
    /\ chunks # <<>>
    /\ chunks # prior_vs.chunks

\* The documents of the supported files of a listing whose loader did not
\* raise, in listing order.
RECURSIVE ExpectedDocuments(_, _)
ExpectedDocuments(l, bad) ==
    IF l = <<>> THEN <<>>
    ELSE IF Head(l).ext \in {"pdf", "txt"} /\ Head(l) \notin bad
         THEN LoaderDocs(Head(l)) \o ExpectedDocuments(Tail(l), bad)
         ELSE ExpectedDocuments(Tail(l), bad)

\* C9: the loop of ingest_documents visits every file of the listing
\* whichever loaders raise, an ingest never ends with a loader's exception,
\* and the documents split are those of the supported files that loaded, in
\* listing order.
C9_LoaderFailureSkipsFile ==
    /\ (InIngest /\ pc = "loading") => (visited = SubSeq(files, 1, idx - 1))
    /\ (InIngest /\ pc = "raised") => (err \in {"build", "save"})
    /\ (InIngest /\ pc # "loading") =>
          /\ visited = files
          /\ documents = ExpectedDocuments(files, raisedFiles)

C9_Witness ==
    /\ pc = "building"
    /\ Len(files) = 3
    /\ files[1].ext = "pdf" /\ files[1] \in raisedFiles
    /\ files[2].ext = "md"
    /\ files[3].ext = "txt"
    /\ documents = LoaderDocs(files[3])

\* C10 (as stated): in the returned record no two entries of sources have
\* the same source identifier.
C10_SourcesDeduplicated ==
    QueryOK =>
        \A i, j \in 1..Len(result.sources) :
            i # j => result.sources[i].source # result.sources[j].source

\* C10 (amended): sources has one entry per retrieved chunk, in ranked
\* order, each with the chunk's metadata and source identifier, so a source
\* identifier appears once per retrieved chunk of that document.
C10_SourcesOnePerChunk ==
    QueryOK =>
        /\ Len(result.sources) = Len(docs)
        /\ \A i \in 1..Len(docs) :
              /\ result.sources[i].source = docs[i].source
              /\ result.sources[i].metadata = docs[i]

C10_Witness ==
    /\ QueryOK
    /\ Len(result.sources) = 2
    /\ result.sources[1].source = result.sources[2].source
    /\ result.sources[1].metadata # result.sources[2].metadata

\* The language an email text is written in, read off its salutation as
\* test_quotation.py does ("Dear" / the Arabic salutation).
EmailLanguage(email) ==
    IF email.salutation = "Dear" THEN EN
    ELSE IF email.salutation = "as-sayyid/as-sayyida" THEN AR
    ELSE "unknown"

\* C11: a /quote request that is answered with 200 has its primary text in
\* the client's language, its alternate text in the other of the two
\* languages, and requested_language equal to the client's language.
C11_PrimaryAndAlternateLanguages ==
    (qpc = "responded" /\ status_code = 200) =>
        LET lang == request.client.lang
            draft == response.email_draft
        IN  /\ lang \in {AR, EN}
            /\ draft.requested_language = lang
            /\ EmailLanguage(draft.primary) = lang
            /\ EmailLanguage(draft.alternate) = (IF lang = AR THEN EN ELSE AR)
            /\ EmailLanguage(draft.primary) # EmailLanguage(draft.alternate)
            /\ draft.primary.items_text # <<>> =>
                  (draft.primary.items_text[1].unit = (IF lang = EN THEN "pcs" ELSE "qit'a"))

C11_Witness ==
    /\ qpc = "responded"
    /\ status_code = 200
    /\ request.client.lang = AR
    /\ Len(request.items) = 2
    /\ EmailLanguage(response.email_draft.primary) = AR
    /\ EmailLanguage(response.email_draft.alternate) = EN

====
